---- MODULE Spec2Model ----
(***************************************************************************)
(* A model of scripts/fetch_nbro_aq.py: one fetch -> enrich -> sort ->     *)
(* write cycle (main), and its two pure helpers classify_pm25 and          *)
(* iso_from_ms.                                                            *)
(*                                                                         *)
(* Representation.                                                         *)
(*  - A Python/JSON value is a record [t, n, e, c, l, d]: t is the type    *)
(*    tag, and the other fields carry the payload of that type (the        *)
(*    fields a type does not use hold a fixed default).                    *)
(*  - A str is the sequence c of its code points.                          *)
(*  - An int is e * 86400000 + n (two limbs, so that epoch milliseconds    *)
(*    fit); ordinary small ints have e = 0.                                *)
(*  - A finite float is held exactly, in hundredths (n = 2505 is 25.05).   *)
(*    The tags "inf", "-inf" and "nan" are the IEEE specials, and "huge"   *)
(*    is a finite double above half the largest double (such as 1e308),    *)
(*    whose product with any integer >= 2 overflows to inf.                *)
(*  - Inside the float arithmetic a number is [k, n, d]: kind k, and for   *)
(*    k = "fin" the exact rational n / d (d > 0).                          *)
(***************************************************************************)
EXTENDS Integers, Sequences, FiniteSets, TLC

VARIABLES
    pc,          \* position of the running program
    net,         \* what the remote endpoint will answer (environment)
    prior_file,  \* the content of OUT_FILE before the run (environment)
    data,        \* main: the parsed response body
    todo,        \* main: the elements the for loop has still to visit
    enriched,    \* main: the list being built
    fetched_at,  \* main: the formatted fetch time
    out_file,    \* the content of OUT_FILE
    opened,      \* whether OUT_FILE was opened for writing in this run
    exc,         \* the exception that ended the run, "" when none
    raw_seen,    \* the raw readings as they are after the loop visited them
    pm25,        \* classify_pm25 harness: argument of the first call
    pm25_b,      \* classify_pm25 harness: argument of the second call
    info,        \* classify_pm25 harness: outcome of the first call
    info_b,      \* classify_pm25 harness: outcome of the second call
    ts_ms,       \* iso_from_ms harness: the argument
    iso          \* iso_from_ms harness: the outcome

vars == <<pc, net, prior_file, data, todo, enriched, fetched_at, out_file,
          opened, exc, raw_seen, pm25, pm25_b, info, info_b, ts_ms, iso>>

mainVars == <<net, prior_file, data, todo, enriched, fetched_at, out_file,
              opened, exc, raw_seen>>
classifyVars == <<pm25, pm25_b, info, info_b>>
isoVars == <<ts_ms, iso>>

----------------------------------------------------------------------------
(* Bounds of the model.                                                    *)

\* longest response array
MaxItems == 2
\* the finite PM2.5 inputs are 0.01 * (-MinusPm .. MaxPm)
MaxPm == 26000
MinusPm == 20
\* the second classify_pm25 argument is the first plus 0 .. MaxStep hundredths
MaxStep == 2
\* timestamps are drawn from the days 0 .. MaxDay after each sample day
MaxDay == 2

----------------------------------------------------------------------------
(* Python values.                                                          *)

Val(t, n, e, c, l, d) == [t |-> t, n |-> n, e |-> e, c |-> c, l |-> l, d |-> d]

PyNone == Val("null", 0, 0, <<>>, <<>>, <<>>)
PyInt(n) == Val("int", n, 0, <<>>, <<>>, <<>>)
PyLong(e, n) == Val("int", n, e, <<>>, <<>>, <<>>)
PyBool(b) == Val("bool", IF b THEN 1 ELSE 0, 0, <<>>, <<>>, <<>>)
PyFloat(h) == Val("float", h, 0, <<>>, <<>>, <<>>)
PyInf == Val("inf", 0, 0, <<>>, <<>>, <<>>)
PyNegInf == Val("-inf", 0, 0, <<>>, <<>>, <<>>)
PyNaN == Val("nan", 0, 0, <<>>, <<>>, <<>>)
PyHuge == Val("huge", 0, 0, <<>>, <<>>, <<>>)
PyStr(c) == Val("str", 0, 0, c, <<>>, <<>>)
PyList(l) == Val("list", 0, 0, <<>>, l, <<>>)
PyDict(d) == Val("object", 0, 0, <<>>, <<>>, d)

\* dict.get(k, default)
Get(v, k, default) == IF k \in DOMAIN v.d THEN v.d[k] ELSE default

\* d[k] = x on a copy of the dict
Put(v, k, x) ==
    PyDict([y \in (DOMAIN v.d) \cup {k} |-> IF y = k THEN x ELSE v.d[y]])

\* the outcome of a call: a returned value, or a raised exception
Return(v) == [exc |-> "", ret |-> v]
Raise(name) == [exc |-> name, ret |-> PyNone]
NotCalled == [exc |-> "not called", ret |-> PyNone]

----------------------------------------------------------------------------
(* Text.                                                                   *)

S_Good == <<71, 111, 111, 100>>
S_Moderate == <<77, 111, 100, 101, 114, 97, 116, 101>>
S_USG == <<85, 110, 104, 101, 97, 108, 116, 104, 121, 32, 102, 111, 114, 32,
           83, 101, 110, 115, 105, 116, 105, 118, 101, 32, 71, 114, 111, 117,
           112, 115>>
S_Unhealthy == <<85, 110, 104, 101, 97, 108, 116, 104, 121>>
S_VeryUnhealthy == <<86, 101, 114, 121, 32, 85, 110, 104, 101, 97, 108, 116,
                     104, 121>>
S_Hazardous == <<72, 97, 122, 97, 114, 100, 111, 117, 115>>
S_Unknown == <<85, 110, 107, 110, 111, 119, 110>>
S_None == <<78, 111, 110, 101>>
S_True == <<84, 114, 117, 101>>
S_False == <<70, 97, 108, 115, 101>>
S_inf == <<105, 110, 102>>
S_nan == <<110, 97, 110>>
S_utc == <<43, 48, 48, 58, 48, 48>>
S_Z == <<90>>

\* chr(48 + d)
Digit(d) == 48 + d

RECURSIVE Decimal(_)
\* the decimal digits of a natural number
Decimal(n) == IF n < 10 THEN <<Digit(n)>> ELSE Decimal(n \div 10) \o <<Digit(n % 10)>>

RECURSIVE Pad(_, _)
\* zero-padding to a width, as the %02d and %06d fields of isoformat
Pad(c, w) == IF Len(c) >= w THEN c ELSE Pad(<<48>> \o c, w)

RECURSIVE Number(_)
\* int() of a string of digits
Number(c) == IF Len(c) = 0 THEN 0 ELSE 10 * Number(SubSeq(c, 1, Len(c) - 1)) + (c[Len(c)] - 48)

\* c < d for two str, by code point
RECURSIVE StrLess(_, _)
StrLess(c, d) ==
    IF Len(d) = 0 THEN FALSE
    ELSE IF Len(c) = 0 THEN TRUE
    ELSE IF c[1] # d[1] THEN c[1] < d[1]
    ELSE StrLess(Tail(c), Tail(d))

----------------------------------------------------------------------------
(* Floating point, as far as lines 37 and 47-58 use it.                    *)

Fin(n, d) == [k |-> "fin", n |-> n, d |-> d]
Special(k) == [k |-> k, n |-> 0, d |-> 1]

\* the position of the first "." of a str, 0 when there is none
DotAt(c) ==
    IF \E i \in 1..Len(c) : c[i] = 46
    THEN CHOOSE i \in 1..Len(c) : c[i] = 46 /\ \A j \in 1..(i - 1) : c[j] # 46
    ELSE 0

\* an unsigned decimal numeral with at most two fraction digits
IsNumeral(c) ==
    LET dot == DotAt(c)
        whole == IF dot = 0 THEN c ELSE SubSeq(c, 1, dot - 1)
        frac == IF dot = 0 THEN <<>> ELSE SubSeq(c, dot + 1, Len(c))
    IN  /\ Len(whole) + Len(frac) > 0
        /\ Len(frac) <= 2
        /\ \A i \in 1..Len(whole) : whole[i] \in 48..57
        /\ \A i \in 1..Len(frac) : frac[i] \in 48..57

\* the value of such a numeral, in hundredths
NumeralValue(c) ==
    LET dot == DotAt(c)
        whole == IF dot = 0 THEN c ELSE SubSeq(c, 1, dot - 1)
        frac == IF dot = 0 THEN <<>> ELSE SubSeq(c, dot + 1, Len(c))
    IN  100 * Number(whole)
        + (IF Len(frac) = 1 THEN 10 ELSE 1) * Number(frac)

\* float(s) for a str s. The text of the modelled inputs is a decimal
\* numeral with at most two fraction digits and an optional sign, "inf",
\* "nan", or text that float() rejects.
ParseFloat(c) ==
    IF c = S_inf THEN [exc |-> "", f |-> Special("inf")]
    ELSE IF c = S_nan THEN [exc |-> "", f |-> Special("nan")]
    ELSE IF IsNumeral(c) THEN [exc |-> "", f |-> Fin(NumeralValue(c), 100)]
    ELSE IF Len(c) > 1 /\ c[1] = 45 /\ IsNumeral(Tail(c))
         THEN [exc |-> "", f |-> Fin(0 - NumeralValue(Tail(c)), 100)]
    ELSE [exc |-> "ValueError", f |-> Special("nan")]

\* an int small enough to be held exactly in hundredths
IsSmall(v) == v.e = 0 /\ v.n \in -1000000..1000000

\* float(v): the float, or the exception float() raises
ToFloat(v) ==
    CASE v.t = "float" -> [exc |-> "", f |-> Fin(v.n, 100)]
      [] v.t \in {"inf", "-inf", "nan", "huge"} -> [exc |-> "", f |-> Special(v.t)]
      [] v.t = "bool" -> [exc |-> "", f |-> Fin(100 * v.n, 100)]
      [] v.t = "int" /\ IsSmall(v) -> [exc |-> "", f |-> Fin(100 * v.n, 100)]
      [] v.t = "int" /\ ~IsSmall(v) ->
            [exc |-> "", f |-> Special(IF v.e > 0 \/ (v.e = 0 /\ v.n > 0)
                                       THEN "big" ELSE "-big")]
      [] v.t = "str" -> ParseFloat(v.c)
      [] v.t \in {"null", "list", "object"} ->
            [exc |-> "TypeError", f |-> Special("nan")]

\* "big" is a finite float beyond the exactly modelled range and below
\* "huge"; the order of the kinds on the real line
Rank(a) ==
    CASE a.k = "-inf" -> 0
      [] a.k = "-big" -> 1
      [] a.k = "fin" -> 2
      [] a.k = "big" -> 3
      [] a.k = "huge" -> 4
      [] a.k = "inf" -> 5

\* a <= b; every comparison with nan is false
FLe(a, b) ==
    IF a.k = "nan" \/ b.k = "nan" THEN FALSE
    ELSE IF a.k = "fin" /\ b.k = "fin" THEN a.n * b.d <= b.n * a.d
    ELSE IF a.k = b.k THEN a.k \in {"inf", "-inf"}
    ELSE Rank(a) < Rank(b)

\* a == b
FEq(a, b) ==
    IF a.k = "nan" \/ b.k = "nan" THEN FALSE
    ELSE IF a.k = "fin" /\ b.k = "fin" THEN a.n * b.d = b.n * a.d
    ELSE a.k = b.k /\ a.k \in {"inf", "-inf"}

\* a - b, for a finite b
FSub(a, b) ==
    IF a.k = "fin"
    THEN IF a.d = b.d THEN Fin(a.n - b.n, a.d)
         ELSE Fin(a.n * b.d - b.n * a.d, a.d * b.d)
    ELSE a

\* a * i, for an int i >= 0: a finite float above half the largest double
\* overflows to inf when it is at least doubled
FMulInt(a, i) ==
    CASE a.k = "fin" -> Fin(a.n * i, a.d)
      [] a.k = "nan" -> a
      [] i = 0 -> IF a.k \in {"inf", "-inf"} THEN Special("nan") ELSE Fin(0, 1)
      [] a.k = "huge" -> IF i >= 2 THEN Special("inf") ELSE a
      [] OTHER -> a

\* a / b, for b > 0
FDiv(a, b) ==
    CASE a.k = "nan" \/ b.k = "nan" -> Special("nan")
      [] a.k = "fin" /\ b.k = "fin" -> Fin(a.n * b.d, a.d * b.n)
      [] a.k \in {"inf", "-inf"} /\ b.k = "inf" -> Special("nan")
      [] b.k = "inf" -> Fin(0, 1)
      [] OTHER -> a

\* i + a, for an int i
FAddInt(i, a) == IF a.k = "fin" THEN Fin(i * a.d + a.n, a.d) ELSE a

\* round(x) of a finite float n / d: to the nearest int, ties to the even one
RoundHalfEven(n, d) ==
    LET q == n \div d
        r == n % d
    IN  IF 2 * r < d THEN q
        ELSE IF 2 * r > d THEN q + 1
        ELSE IF q % 2 = 0 THEN q ELSE q + 1

\* int(round(x)): round() raises on nan (ValueError) and on inf (OverflowError)
IntRound(a) ==
    CASE a.k = "fin" -> [exc |-> "", i |-> RoundHalfEven(a.n, a.d)]
      [] a.k = "nan" -> [exc |-> "ValueError", i |-> 0]
      [] a.k \in {"inf", "-inf"} -> [exc |-> "OverflowError", i |-> 0]

\* the float as a JSON value again
FloatValue(a) ==
    CASE a.k = "fin" -> PyFloat((100 * a.n) \div a.d)
      [] a.k = "inf" -> PyInf
      [] a.k = "-inf" -> PyNegInf
      [] a.k = "nan" -> PyNaN
      [] a.k = "huge" -> PyHuge

----------------------------------------------------------------------------
(* classify_pm25                                                           *)

Band(lo, hi, aqi_lo, aqi_hi, label) ==
    [pm_lo |-> lo, pm_hi |-> hi, aqi_lo |-> aqi_lo, aqi_hi |-> aqi_hi,
     label |-> label]

BREAKPOINTS ==
    << Band(Fin(0, 100), Fin(2500, 100), 0, 50, S_Good),
       Band(Fin(2510, 100), Fin(5000, 100), 51, 100, S_Moderate),
       Band(Fin(5010, 100), Fin(7500, 100), 101, 150, S_USG),
       Band(Fin(7510, 100), Fin(15000, 100), 151, 200, S_Unhealthy),
       Band(Fin(15010, 100), Fin(25000, 100), 201, 300, S_VeryUnhealthy),
       Band(Fin(25010, 100), Special("inf"), 301, 500, S_Hazardous) >>

Unknown == PyDict([sl_aqi_label |-> PyStr(S_Unknown), sl_aqi_est |-> PyNone])

\* line 50 with the upper end of a band excluded
InBandHalfOpen(pm, b) == FLe(b.pm_lo, pm) /\ FLe(pm, b.pm_hi) /\ ~FEq(pm, b.pm_hi)

\* line 50
InBand(pm, b) == FLe(b.pm_lo, pm) /\ FLe(pm, b.pm_hi)

\* lines 52-55 with the offset pm - pm_lo taken as pm
EstimateFromZero(pm, b) ==
    IF FEq(b.pm_hi, b.pm_lo)
    THEN Fin(b.aqi_hi, 1)
    ELSE FAddInt(b.aqi_lo,
                 FDiv(FMulInt(pm, b.aqi_hi - b.aqi_lo), FSub(b.pm_hi, b.pm_lo)))

\* lines 52-55
Estimate(pm, b) ==
    IF FEq(b.pm_hi, b.pm_lo)
    THEN Fin(b.aqi_hi, 1)
    ELSE FAddInt(b.aqi_lo,
                 FDiv(FMulInt(FSub(pm, b.pm_lo), b.aqi_hi - b.aqi_lo),
                      FSub(b.pm_hi, b.pm_lo)))

\* lines 56-61
BandResult(pm, b) ==
    LET est == IntRound(Estimate(pm, b))
    IN  IF est.exc # "" THEN Raise(est.exc)
        ELSE Return(PyDict(
               [sl_aqi_label |-> PyStr(b.label),
                sl_aqi_est |-> PyInt(est.i),
                sl_aqi_range |-> PyList(<<PyInt(b.aqi_lo), PyInt(b.aqi_hi)>>),
                pm25_range |->
                    PyList(<<FloatValue(b.pm_lo),
                             IF b.pm_hi.k # "inf" THEN FloatValue(b.pm_hi)
                             ELSE PyNone>>)]))

\* lines 49-63: the first band that holds pm decides
FirstBand(pm) ==
    IF \E j \in 1..Len(BREAKPOINTS) : InBand(pm, BREAKPOINTS[j])
    THEN CHOOSE j \in 1..Len(BREAKPOINTS) :
            /\ InBand(pm, BREAKPOINTS[j])
            /\ \A h \in 1..(j - 1) : ~InBand(pm, BREAKPOINTS[h])
    ELSE 0

classify_pm25(v) ==
    IF v.t = "null" THEN Return(Unknown)
    ELSE LET pm == ToFloat(v)
         IN  IF pm.exc # "" THEN Raise(pm.exc)
             ELSE IF FirstBand(pm.f) = 0 THEN Return(Unknown)
             ELSE BandResult(pm.f, BREAKPOINTS[FirstBand(pm.f)])

----------------------------------------------------------------------------
(* iso_from_ms                                                             *)

\* a point of time: days since 1970-01-01, milliseconds of the day,
\* microseconds of the millisecond
Instant(day, ms, us) == [day |-> day, ms |-> ms, us |-> us]

\* float(ts_ms) / 1000.0 as a point of time. Within the years the model
\* draws timestamps from the division is exact to the microsecond.
Millis(v, f) ==
    IF v.t \in {"int", "bool"}
    THEN Instant(v.e + (v.n \div 86400000), v.n % 86400000, 0)
    ELSE Instant((f.n \div 100) \div 86400000, (f.n \div 100) % 86400000,
                 10 * (f.n % 100))

\* datetime.fromtimestamp(x, tz=timezone.utc): raises for nan, for the
\* infinities, and outside the years 1 .. 9999
fromtimestamp(v, f) ==
    CASE f.k = "nan" -> [exc |-> "ValueError", dt |-> Instant(0, 0, 0)]
      [] f.k \in {"inf", "-inf", "huge"} ->
            [exc |-> "OverflowError", dt |-> Instant(0, 0, 0)]
      [] OTHER ->
            IF Millis(v, f).day \in -719162..2932896
            THEN [exc |-> "", dt |-> Millis(v, f)]
            ELSE [exc |-> "ValueError", dt |-> Instant(0, 0, 0)]

\* the civil date of a day number
CivilDate(day) ==
    LET z == day + 719468
        era == z \div 146097
        doe == z - era * 146097
        yoe == (doe - (doe \div 1460) + (doe \div 36524) - (doe \div 146096)) \div 365
        doy == doe - (365 * yoe + (yoe \div 4) - (yoe \div 100))
        mp == (5 * doy + 2) \div 153
        m == IF mp < 10 THEN mp + 3 ELSE mp - 9
    IN  [year |-> yoe + era * 400 + (IF m <= 2 THEN 1 ELSE 0),
         month |-> m,
         day |-> doy - ((153 * mp + 2) \div 5) + 1]

\* dt.isoformat() of an aware UTC datetime: the fraction is printed only
\* when the microsecond is not 0, and the offset is "+00:00"
isoformat(dt) ==
    LET date == CivilDate(dt.day)
        sec == dt.ms \div 1000
        micro == 1000 * (dt.ms % 1000) + dt.us
    IN  Pad(Decimal(date.year), 4) \o <<45>> \o Pad(Decimal(date.month), 2)
        \o <<45>> \o Pad(Decimal(date.day), 2) \o <<84>>
        \o Pad(Decimal(sec \div 3600), 2) \o <<58>>
        \o Pad(Decimal((sec \div 60) % 60), 2) \o <<58>>
        \o Pad(Decimal(sec % 60), 2)
        \o (IF micro = 0 THEN <<>> ELSE <<46>> \o Pad(Decimal(micro), 6))
        \o S_utc

RECURSIVE Replace(_, _, _)
\* s.replace(old, new), for a non-empty old
Replace(s, old, new) ==
    IF Len(s) < Len(old) THEN s
    ELSE IF SubSeq(s, 1, Len(old)) = old
         THEN new \o Replace(SubSeq(s, Len(old) + 1, Len(s)), old, new)
    ELSE <<s[1]>> \o Replace(Tail(s), old, new)

\* lines 37-38, with the exception they may raise
Converted(v) ==
    LET f == ToFloat(v)
        at == fromtimestamp(v, f.f)
    IN  IF f.exc # "" THEN Raise(f.exc)
        ELSE IF at.exc # "" THEN Raise(at.exc)
        ELSE Return(PyStr(Replace(isoformat(at.dt), S_utc, S_Z)))

\* lines 36-40 without the try: the exception leaves the function
Unguarded(r) == r

\* lines 36-40: every exception of the conversion is caught
Guarded(r) == IF r.exc # "" THEN Return(PyNone) ELSE r

iso_from_ms(v) ==
    IF v.t = "null" THEN Return(PyNone) ELSE Guarded(Converted(v))

----------------------------------------------------------------------------
(* main                                                                    *)

S_ENDPOINT ==
    <<104, 116, 116, 112, 115, 58, 47, 47, 97, 113, 46, 110, 98, 114, 111,
      46, 103, 111, 118, 46, 108, 107, 47, 105, 110, 118, 111, 107, 101, 114,
      46, 112, 104, 112>>

\* the text of the keys the model's dicts use
KeyText(k) ==
    CASE k = "name" ->
            <<110, 97, 109, 101>>
      [] k = "meta_device_id" ->
            <<109, 101, 116, 97, 95, 100, 101, 118, 105, 99, 101, 95, 105, 100>>
      [] k = "pm25" ->
            <<112, 109, 50, 53>>
      [] k = "timestamp" ->
            <<116, 105, 109, 101, 115, 116, 97, 109, 112>>
      [] k = "pm25_range" ->
            <<112, 109, 50, 53, 95, 114, 97, 110, 103, 101>>
      [] k = "timestamp_iso_utc" ->
            <<116, 105, 109, 101, 115, 116, 97, 109, 112, 95, 105, 115, 111, 95, 117, 116, 99>>
      [] k = "sl_aqi_label" ->
            <<115, 108, 95, 97, 113, 105, 95, 108, 97, 98, 101, 108>>
      [] k = "sl_aqi_est" ->
            <<115, 108, 95, 97, 113, 105, 95, 101, 115, 116>>
      [] k = "sl_aqi_range" ->
            <<115, 108, 95, 97, 113, 105, 95, 114, 97, 110, 103, 101>>
      [] k = "pm25_band_range" ->
            <<112, 109, 50, 53, 95, 98, 97, 110, 100, 95, 114, 97, 110, 103, 101>>

RECURSIVE KeyList(_)
\* the keys of a dict as the str a loop over the dict visits
KeyList(keys) ==
    IF keys = {} THEN <<>>
    ELSE LET k == CHOOSE x \in keys : TRUE
         IN  <<PyStr(KeyText(k))>> \o KeyList(keys \ {k})

\* line 79, iter(data): the elements a for loop visits
Iterable(v) == v.t \in {"list", "object", "str"}
IterOf(v) ==
    CASE v.t = "list" -> v.l
      [] v.t = "object" -> KeyList(DOMAIN v.d)
      [] v.t = "str" -> [i \in 1..Len(v.c) |-> PyStr(<<v.c[i]>>)]

\* repr of a finite float held in hundredths, as str() prints it
FloatText(h) ==
    (IF h < 0 THEN <<45>> ELSE <<>>)
    \o LET a == IF h < 0 THEN 0 - h ELSE h
       IN  Decimal(a \div 100) \o <<46>>
           \o (IF a % 10 = 0 THEN Decimal((a % 100) \div 10)
               ELSE Pad(Decimal(a % 100), 2))

\* str(v), for the types a station name or device id has in the model
StrOf(v) ==
    CASE v.t = "str" -> v.c
      [] v.t = "null" -> S_None
      [] v.t = "bool" -> IF v.n = 1 THEN S_True ELSE S_False
      [] v.t = "int" /\ v.e = 0 ->
            IF v.n < 0 THEN <<45>> \o Decimal(0 - v.n) ELSE Decimal(v.n)
      [] v.t = "float" -> FloatText(v.n)
      [] v.t = "inf" -> S_inf
      [] v.t = "-inf" -> <<45>> \o S_inf
      [] v.t = "nan" -> S_nan

\* line 92 with the station name as the only key
NameKey(x) == <<StrOf(Get(x, "name", PyStr(<<>>))), <<>>>>

\* line 92: the sort key
SortKey(x) ==
    <<StrOf(Get(x, "name", PyStr(<<>>))),
      StrOf(Get(x, "meta_device_id", PyStr(<<>>)))>>

\* a < b for two sort keys (tuples compare element by element)
KeyLess(a, b) == StrLess(a[1], b[1]) \/ (a[1] = b[1] /\ StrLess(a[2], b[2]))

RECURSIVE InsertSorted(_, _)
\* x placed behind every element that is not greater than it
InsertSorted(x, sorted) ==
    IF sorted = <<>> THEN <<x>>
    ELSE IF KeyLess(SortKey(x), SortKey(Head(sorted)))
         THEN <<x>> \o sorted
    ELSE <<Head(sorted)>> \o InsertSorted(x, Tail(sorted))

RECURSIVE SortedCopy(_)
\* line 92: list.sort(key=...), a stable sort
SortedCopy(l) ==
    IF l = <<>> THEN <<>>
    ELSE InsertSorted(l[Len(l)], SortedCopy(SubSeq(l, 1, Len(l) - 1)))

\* lines 80-88 for one dict: the exception raised, or the enriched reading
EnrichedItem(item) ==
    LET got == classify_pm25(Get(item, "pm25", PyNone))
        stamp == iso_from_ms(Get(item, "timestamp", PyNone))
        e1 == Put(item, "timestamp_iso_utc", stamp.ret)
        e2 == Put(e1, "sl_aqi_label", Get(got.ret, "sl_aqi_label", PyNone))
        e3 == Put(e2, "sl_aqi_est", Get(got.ret, "sl_aqi_est", PyNone))
        e4 == Put(e3, "sl_aqi_range", Get(got.ret, "sl_aqi_range", PyNone))
        e5 == Put(e4, "pm25_band_range", Get(got.ret, "pm25_range", PyNone))
    IN  IF got.exc # "" THEN [exc |-> got.exc, out |-> item]
        ELSE IF stamp.exc # "" THEN [exc |-> stamp.exc, out |-> item]
        ELSE [exc |-> "", out |-> e5]

\* line 83 without dict(): the keys are set on the raw reading itself
EnrichInPlace(item) ==
    [exc |-> EnrichedItem(item).exc,
     raw |-> EnrichedItem(item).out,
     out |-> EnrichedItem(item).out]

\* line 83: the keys are set on a copy, the raw reading stays as it is
Enrich(item) ==
    [exc |-> EnrichedItem(item).exc,
     raw |-> item,
     out |-> EnrichedItem(item).out]

\* lines 94-99
Document(stations, at) ==
    PyDict([source |-> PyStr(S_ENDPOINT),
            fetched_at_utc |-> PyStr(at),
            count |-> PyInt(Len(stations)),
            stations |-> PyList(stations)])

----------------------------------------------------------------------------
(* The inputs of a run.                                                    *)

S_A == <<65>>
S_B == <<66>>
S_abc == <<97, 98, 99>>

\* 2023-11-14T22:13:20Z, that is 1700000000000 ms
SampleTime == PyLong(19675, 80000000)

\* the elements a response array is made of: station readings with the
\* fields present, absent, null, well-formed and malformed, readings that
\* already carry a key of an enrichment name, and elements that are no dict
Pool ==
    { PyDict([name |-> PyStr(S_B), pm25 |-> PyInt(10)]),
      PyDict([name |-> PyStr(S_A), pm25 |-> PyNone]),
      PyDict([name |-> PyStr(S_A), meta_device_id |-> PyInt(2),
              pm25 |-> PyFloat(2505), timestamp |-> SampleTime]),
      PyDict([name |-> PyStr(S_A), meta_device_id |-> PyInt(10),
              pm25 |-> PyStr(<<49, 50, 46, 53>>), timestamp |-> PyStr(<<49, 50>>)]),
      PyDict([meta_device_id |-> PyInt(1), pm25 |-> PyFloat(-500)]),
      PyDict([name |-> PyNone, meta_device_id |-> PyStr(<<120>>),
              pm25 |-> PyFloat(2500), timestamp |-> PyStr(S_abc)]),
      PyDict([name |-> PyInt(10), pm25 |-> PyFloat(30000),
              timestamp |-> PyInt(-1)]),
      PyDict([name |-> PyInt(9), pm25 |-> PyFloat(2510), timestamp |-> PyNaN]),
      PyDict([name |-> PyStr(<<97>>), pm25 |-> PyStr(S_abc)]),
      PyDict([name |-> PyStr(<<65, 66>>), pm25 |-> PyHuge,
              timestamp |-> SampleTime]),
      PyDict([name |-> PyStr(<<67>>), pm25 |-> PyFloat(3000),
              sl_aqi_label |-> PyStr(<<120>>)]),
      PyDict([name |-> PyStr(<<67>>), pm25_range |-> PyStr(<<121>>),
              timestamp_iso_utc |-> PyInt(5), timestamp |-> PyNone]),
      PyDict(<<>>),
      PyInt(7),
      PyList(<<>>) }

\* every list of at most MaxItems elements of the pool
Arrays == UNION {[1..n -> Pool] : n \in 0..MaxItems}

\* the bodies that are valid JSON
Bodies ==
    {PyList(l) : l \in Arrays}
    \cup { PyNone, PyInt(7), PyFloat(150), PyBool(TRUE), PyStr(<<>>),
           PyStr(S_abc), PyDict(<<>>),
           PyDict([name |-> PyStr(S_B), pm25 |-> PyInt(10)]) }

Response(status, valid, body) == [status |-> status, valid |-> valid, body |-> body]

\* what the endpoint may answer: no answer, a non-2xx answer, an answer
\* whose body is no JSON, or an answer with a JSON body
Responses ==
    {Response(st, TRUE, PyList(<<>>)) : st \in {"ConnectionError", "Timeout", "HTTPError"}}
    \cup {Response("ok", FALSE, PyNone)}
    \cup {Response("ok", TRUE, b) : b \in Bodies}

\* the times the clock may show at line 76
Clocks == {Instant(19675, 80000000, 0), Instant(19676, 1, 7)}

NoFile == PyNone
PriorDoc == Document(<<PyDict([name |-> PyStr(S_A)])>>,
                     Replace(isoformat(Instant(19674, 0, 0)), S_utc, S_Z))

\* the state of the variables of main while a helper is exercised alone,
\* and of the helpers' harnesses while main runs
MainIdle ==
    /\ net = Response("ok", TRUE, PyList(<<>>))
    /\ prior_file = NoFile
    /\ data = PyNone
    /\ todo = <<>>
    /\ enriched = <<>>
    /\ fetched_at = <<>>
    /\ out_file = NoFile
    /\ opened = FALSE
    /\ exc = ""
    /\ raw_seen = <<>>
ClassifyIdle ==
    /\ pm25 = PyNone
    /\ pm25_b = PyNone
    /\ info = NotCalled
    /\ info_b = NotCalled
IsoIdle ==
    /\ ts_ms = PyNone
    /\ iso = NotCalled

----------------------------------------------------------------------------
(* The run of main.                                                        *)

Init ==
    /\ pc = "get"
    /\ net \in Responses
    /\ prior_file \in {NoFile, PriorDoc}
    /\ out_file = prior_file
    /\ data = PyNone
    /\ todo = <<>>
    /\ enriched = <<>>
    /\ fetched_at = <<>>
    /\ opened = FALSE
    /\ exc = ""
    /\ raw_seen = <<>>
    /\ ClassifyIdle
    /\ IsoIdle

\* an exception leaves main: the run ends with a traceback
Abort(e) ==
    /\ pc' = "aborted"
    /\ exc' = e

\* lines 67-72: requests.get and raise_for_status
Fetch ==
    /\ pc = "get"
    /\ IF net.status # "ok"
       THEN Abort(net.status)
       ELSE pc' = "json" /\ exc' = exc
    /\ UNCHANGED <<net, prior_file, data, todo, enriched, fetched_at, out_file,
                   opened, raw_seen, classifyVars, isoVars>>

\* lines 74-78: r.json(), the clock, the empty list
ParseBody ==
    /\ pc = "json"
    /\ IF ~net.valid
       THEN /\ Abort("JSONDecodeError")
            /\ UNCHANGED <<data, fetched_at>>
       ELSE /\ pc' = "for"
            /\ exc' = exc
            /\ data' = net.body
            /\ \E now \in Clocks :
                  fetched_at' = Replace(isoformat(now), S_utc, S_Z)
    /\ enriched' = <<>>
    /\ UNCHANGED <<net, prior_file, todo, out_file, opened, raw_seen,
                   classifyVars, isoVars>>

\* line 79: the loop asks data for its elements
ForLoop ==
    /\ pc = "for"
    /\ IF Iterable(data)
       THEN pc' = "item" /\ exc' = exc /\ todo' = IterOf(data)
       ELSE Abort("TypeError") /\ todo' = todo
    /\ UNCHANGED <<net, prior_file, data, enriched, fetched_at, out_file,
                   opened, raw_seen, classifyVars, isoVars>>

\* lines 80-89: one iteration of the loop
EnrichItem ==
    /\ pc = "item"
    /\ todo # <<>>
    /\ LET item == Head(todo)
       IN  IF item.t # "object"
           THEN Abort("AttributeError") /\ UNCHANGED <<todo, enriched, raw_seen>>
           ELSE IF Enrich(item).exc # ""
           THEN Abort(Enrich(item).exc) /\ UNCHANGED <<todo, enriched, raw_seen>>
           ELSE /\ pc' = pc
                /\ exc' = exc
                /\ todo' = Tail(todo)
                /\ enriched' = Append(enriched, Enrich(item).out)
                /\ raw_seen' = Append(raw_seen, Enrich(item).raw)
    /\ UNCHANGED <<net, prior_file, data, fetched_at, out_file, opened,
                   classifyVars, isoVars>>

\* line 92, once the loop has ended
SortStations ==
    /\ pc = "item"
    /\ todo = <<>>
    /\ pc' = "write"
    /\ enriched' = SortedCopy(enriched)
    /\ UNCHANGED <<net, prior_file, data, todo, fetched_at, out_file, opened,
                   exc, raw_seen, classifyVars, isoVars>>

\* lines 94-106: the document is built and written
WriteOutput ==
    /\ pc = "write"
    /\ pc' = "done"
    /\ opened' = TRUE
    /\ out_file' = Document(enriched, fetched_at)
    /\ UNCHANGED <<net, prior_file, data, todo, enriched, fetched_at, exc,
                   raw_seen, classifyVars, isoVars>>

\* lines 101-102: makedirs or open fails (no permission, no space)
WriteFails ==
    /\ pc = "write"
    /\ Abort("OSError")
    /\ UNCHANGED <<net, prior_file, data, todo, enriched, fetched_at, out_file,
                   opened, raw_seen, classifyVars, isoVars>>

Next ==
    \/ Fetch
    \/ ParseBody
    \/ ForLoop
    \/ EnrichItem
    \/ SortStations
    \/ WriteOutput
    \/ WriteFails

Spec == Init /\ [][Next]_vars

----------------------------------------------------------------------------
(* classify_pm25 called on its own: two calls, so that the results for     *)
(* two inputs can be compared.                                             *)

\* None, every finite value of the grid, the float specials, and values
\* of the other JSON types
ClassifyInputs ==
    {PyFloat(h) : h \in (0 - MinusPm)..MaxPm}
    \cup { PyNone, PyInf, PyNegInf, PyNaN, PyHuge, PyInt(10), PyFloat(30000),
           PyBool(TRUE), PyStr(S_abc), PyStr(<<>>), PyStr(S_inf),
           PyStr(<<49, 50, 46, 53>>), PyList(<<>>), PyDict(<<>>) }

\* the inputs the second call is given after v: v and the values just
\* above it, and the upper end of the band of v
SecondInputs(v) ==
    IF v.t # "float" THEN {v}
    ELSE {PyFloat(v.n + s) : s \in 0..MaxStep}
         \cup {FloatValue(BREAKPOINTS[j].pm_hi) :
                 j \in {FirstBand(Fin(v.n, 100))} \ {0}}

InitClassify ==
    /\ pc = "first"
    /\ pm25 \in ClassifyInputs
    /\ pm25_b \in SecondInputs(pm25)
    /\ info = NotCalled
    /\ info_b = NotCalled
    /\ MainIdle
    /\ IsoIdle

ClassifyFirst ==
    /\ pc = "first"
    /\ pc' = "second"
    /\ info' = classify_pm25(pm25)
    /\ UNCHANGED <<pm25, pm25_b, info_b, mainVars, isoVars>>

ClassifySecond ==
    /\ pc = "second"
    /\ pc' = "returned"
    /\ info_b' = classify_pm25(pm25_b)
    /\ UNCHANGED <<pm25, pm25_b, info, mainVars, isoVars>>

NextClassify ==
    \/ ClassifyFirst
    \/ ClassifySecond

SpecClassify == InitClassify /\ [][NextClassify]_vars

----------------------------------------------------------------------------
(* iso_from_ms called on its own.                                          *)

\* the days timestamps are drawn from: around the epoch, a leap day, the
\* day of 1700000000000 ms, and the first day beyond each end of the
\* calendar
SampleDays ==
    {base + k : base \in {-1, 11016, 19675}, k \in 0..MaxDay}
    \cup {-719163, -719162, 2932896, 2932897}

IsoInputs ==
    {PyLong(day, ms) : day \in SampleDays, ms \in {0, 1, 999, 80000000, 86399999}}
    \cup {PyFloat(h) : h \in {-75, 7, 125, 1234, 9999}}
    \cup { PyNone, PyInf, PyNegInf, PyNaN, PyHuge, PyBool(TRUE), PyStr(S_abc),
           PyStr(<<>>), PyStr(S_inf), PyStr(S_nan), PyStr(<<49, 50>>),
           PyList(<<>>), PyDict(<<>>) }

InitIso ==
    /\ pc = "call"
    /\ ts_ms \in IsoInputs
    /\ iso = NotCalled
    /\ MainIdle
    /\ ClassifyIdle

IsoCall ==
    /\ pc = "call"
    /\ pc' = "returned"
    /\ iso' = iso_from_ms(ts_ms)
    /\ UNCHANGED <<ts_ms, mainVars, classifyVars>>

NextIso == IsoCall

SpecIso == InitIso /\ [][NextIso]_vars

----------------------------------------------------------------------------
(* Properties of classify_pm25, checked under SpecClassify.                *)

EnrichmentKeys ==
    {"timestamp_iso_utc", "sl_aqi_label", "sl_aqi_est", "sl_aqi_range",
     "pm25_band_range"}

BandLabels == {BREAKPOINTS[j].label : j \in 1..Len(BREAKPOINTS)}

\* the first call has been made
Called == info # NotCalled
\* both calls have been made
CalledTwice == info # NotCalled /\ info_b # NotCalled

\* the input value as a float, for an input that float() accepts
AsFloat(v) == ToFloat(v).f

\* v is not absent and cannot be coerced to a number
Uncoercible(v) ==
    \/ v.t \in {"list", "object"}
    \/ v.t = "str" /\ ParseFloat(v.c).exc # ""

\* v is a finite number
FiniteNumber(v) ==
    \/ v.t \in {"float", "huge", "int", "bool"}
    \/ v.t = "str" /\ ParseFloat(v.c).exc = "" /\ ParseFloat(v.c).f.k = "fin"

\* the bands whose inclusive range holds the float pm
BandsOf(pm) == {j \in 1..Len(BREAKPOINTS) : InBand(pm, BREAKPOINTS[j])}

\* r is a returned result of band j with the estimate est
IsBandResult(r, j, est) ==
    /\ r.exc = ""
    /\ DOMAIN r.ret.d = {"sl_aqi_label", "sl_aqi_est", "sl_aqi_range", "pm25_range"}
    /\ r.ret.d.sl_aqi_label = PyStr(BREAKPOINTS[j].label)
    /\ r.ret.d.sl_aqi_est = PyInt(est)
    /\ r.ret.d.sl_aqi_range =
          PyList(<<PyInt(BREAKPOINTS[j].aqi_lo), PyInt(BREAKPOINTS[j].aqi_hi)>>)

\* r is the result "Unknown": no estimate, no AQI range, no pm25 band
IsUnknownResult(r) ==
    /\ r.exc = ""
    /\ DOMAIN r.ret.d = {"sl_aqi_label", "sl_aqi_est"}
    /\ r.ret.d.sl_aqi_label = PyStr(S_Unknown)
    /\ r.ret.d.sl_aqi_est = PyNone

\* C3: classify_pm25(None) and classify_pm25 of an input that cannot be
\* coerced to a number both return "Unknown" with no estimate, no AQI range
\* and no pm25 band, and neither call raises.
C3_UnknownForAbsentOrUncoercible ==
    (Called /\ (pm25.t = "null" \/ Uncoercible(pm25))) => IsUnknownResult(info)

\* C4 as claimed: the value at the upper end of a band is classified into
\* that band with the estimate aqi_high, the value at the lower end of the
\* next band into the next band with the estimate aqi_low, and every value
\* v >= 0 lies in exactly one band, so that no non-negative value is
\* classified "Unknown".
C4_EveryValueInOneBand ==
    Called =>
        /\ \A j \in 1..(Len(BREAKPOINTS) - 1) :
              /\ pm25 = FloatValue(BREAKPOINTS[j].pm_hi)
                    => IsBandResult(info, j, BREAKPOINTS[j].aqi_hi)
              /\ pm25 = FloatValue(BREAKPOINTS[j + 1].pm_lo)
                    => IsBandResult(info, j + 1, BREAKPOINTS[j + 1].aqi_lo)
        /\ (pm25.t = "float" /\ pm25.n >= 0)
              => /\ Cardinality(BandsOf(AsFloat(pm25))) = 1
                 /\ ~IsUnknownResult(info)

\* C4 as amended: the same for every value v >= 0 that is a whole number
\* of tenths, the step of the table; the values strictly between the
\* upper end of a band and the lower end of the next lie in no band.
C4_EveryTenthInOneBand ==
    Called =>
        /\ \A j \in 1..(Len(BREAKPOINTS) - 1) :
              /\ pm25 = FloatValue(BREAKPOINTS[j].pm_hi)
                    => IsBandResult(info, j, BREAKPOINTS[j].aqi_hi)
              /\ pm25 = FloatValue(BREAKPOINTS[j + 1].pm_lo)
                    => IsBandResult(info, j + 1, BREAKPOINTS[j + 1].aqi_lo)
        /\ (pm25.t = "float" /\ pm25.n >= 0 /\ pm25.n % 10 = 0)
              => /\ Cardinality(BandsOf(AsFloat(pm25))) = 1
                 /\ ~IsUnknownResult(info)
        /\ (pm25.t = "float" /\ pm25.n >= 0 /\ BandsOf(AsFloat(pm25)) = {})
              => /\ pm25.n % 10 # 0
                 /\ IsUnknownResult(info)

\* 25.0 has been classified "Good" with the estimate 50
C4_Witness_UpperEnd ==
    /\ pm25 = PyFloat(2500)
    /\ IsBandResult(info, 1, 50)

\* C5: for every band and all values v1 <= v2 inside it the estimate of v1
\* is at most the estimate of v2, and the two ends of a band are given the
\* same AQI range and the same label.
C5_MonotoneWithinBand ==
    CalledTwice =>
        \A j \in 1..Len(BREAKPOINTS) :
            ( /\ FiniteNumber(pm25) \/ pm25.t = "inf"
              /\ FiniteNumber(pm25_b) \/ pm25_b.t = "inf"
              /\ InBand(AsFloat(pm25), BREAKPOINTS[j])
              /\ InBand(AsFloat(pm25_b), BREAKPOINTS[j])
              /\ FLe(AsFloat(pm25), AsFloat(pm25_b)) )
            => /\ info.exc = ""
               /\ info_b.exc = ""
               /\ info.ret.d.sl_aqi_est.n <= info_b.ret.d.sl_aqi_est.n
               /\ info.ret.d.sl_aqi_range = info_b.ret.d.sl_aqi_range
               /\ info.ret.d.sl_aqi_label = info_b.ret.d.sl_aqi_label

\* C9: for every finite value v >= 250.1 the result is "Hazardous" with
\* the AQI range [301, 500], the pm25 range [250.1, null] and the estimate
\* 301, however large v is.
C9_TopBandConstant ==
    ( /\ Called
      /\ FiniteNumber(pm25)
      /\ FLe(BREAKPOINTS[Len(BREAKPOINTS)].pm_lo, AsFloat(pm25)) )
    => /\ IsBandResult(info, Len(BREAKPOINTS), 301)
       /\ info.ret.d.sl_aqi_label = PyStr(S_Hazardous)
       /\ info.ret.d.sl_aqi_range = PyList(<<PyInt(301), PyInt(500)>>)
       /\ info.ret.d.pm25_range = PyList(<<PyFloat(25010), PyNone>>)

\* C10: a returned result is either a band result, whose estimate is an
\* int within the returned AQI range and whose input lies within the
\* returned pm25 range, or "Unknown" with a null estimate and no range;
\* a band is reported exactly when the input lies in one.
C10_ResultConsistent ==
    (Called /\ info.exc = "") =>
        LET r == info.ret.d
        IN  IF r.sl_aqi_label = PyStr(S_Unknown)
            THEN /\ DOMAIN r = {"sl_aqi_label", "sl_aqi_est"}
                 /\ r.sl_aqi_est = PyNone
                 /\ pm25.t = "null" \/ BandsOf(AsFloat(pm25)) = {}
            ELSE /\ DOMAIN r = {"sl_aqi_label", "sl_aqi_est", "sl_aqi_range",
                                "pm25_range"}
                 /\ r.sl_aqi_label.t = "str"
                 /\ r.sl_aqi_label.c \in BandLabels
                 /\ r.sl_aqi_est.t = "int"
                 /\ r.sl_aqi_range.l[1].n <= r.sl_aqi_est.n
                 /\ r.sl_aqi_est.n <= r.sl_aqi_range.l[2].n
                 /\ FLe(AsFloat(r.pm25_range.l[1]), AsFloat(pm25))
                 /\ \/ r.pm25_range.l[2] = PyNone
                    \/ FLe(AsFloat(pm25), AsFloat(r.pm25_range.l[2]))

\* 37.55, the middle of an AQI step of its band, has been given the
\* estimate 76 of the band 51 .. 100
C10_Witness_Interpolated ==
    /\ pm25 = PyFloat(3755)
    /\ IsBandResult(info, 2, 76)

----------------------------------------------------------------------------
(* Properties of iso_from_ms, checked under SpecIso.                       *)

\* sub occurs in s
Contains(s, sub) ==
    \E i \in 1..(Len(s) - Len(sub) + 1) : SubSeq(s, i, i + Len(sub) - 1) = sub

EndsWith(s, sub) ==
    Len(s) >= Len(sub) /\ SubSeq(s, Len(s) - Len(sub) + 1, Len(s)) = sub

\* v is no finite number of milliseconds of the years 1 .. 9999
Uninterpretable(v) ==
    \/ v.t \in {"nan", "inf", "-inf", "huge", "list", "object"}
    \/ v.t = "str" /\ (ParseFloat(v.c).exc # "" \/ ParseFloat(v.c).f.k # "fin")
    \/ v.t = "int" /\ (v.e + (v.n \div 86400000)) \notin -719162..2932896

\* C8: iso_from_ms never raises; an absent input and an input that cannot
\* be interpreted as a finite number of milliseconds both give null; and
\* every result that is not null is a str that ends in Z and does not
\* contain +00:00.
C8_IsoNeverRaises ==
    iso # NotCalled =>
        /\ iso.exc = ""
        /\ (ts_ms.t = "null" \/ Uninterpretable(ts_ms)) => iso.ret = PyNone
        /\ iso.ret # PyNone
              => /\ iso.ret.t = "str"
                 /\ EndsWith(iso.ret.c, S_Z)
                 /\ ~Contains(iso.ret.c, S_utc)

\* 1700000000000 ms has been converted to 2023-11-14T22:13:20Z
C8_Witness_Converted ==
    /\ ts_ms = SampleTime
    /\ iso = Return(PyStr(<<50, 48, 50, 51, 45, 49, 49, 45, 49, 52, 84, 50, 50,
                            58, 49, 51, 58, 50, 48, 90>>))

----------------------------------------------------------------------------
(* Properties of main, checked under Spec.                                 *)

\* the fetch step fails
FetchFails == net.status # "ok"

\* the response body is not a JSON array of objects
Malformed ==
    \/ ~net.valid
    \/ net.body.t # "list"
    \/ \E i \in 1..Len(net.body.l) : net.body.l[i].t # "object"

\* the fetch succeeded with a JSON array of objects
ArrayOfObjects == ~FetchFails /\ ~Malformed

\* the pm25 of a reading is missing or is no number
BadPm25(x) ==
    \/ "pm25" \notin DOMAIN x.d
    \/ x.d.pm25.t = "null"
    \/ Uncoercible(x.d.pm25)

\* the timestamp of a reading is missing or invalid
BadTimestamp(x) ==
    \/ "timestamp" \notin DOMAIN x.d
    \/ x.d.timestamp.t = "null"
    \/ Uninterpretable(x.d.timestamp)

\* C1: when the fetch step fails or the body is not a JSON array of
\* objects, the run aborts: it never completes, OUT_FILE is never opened
\* and its content stays what it was before the run.
C1_NoWriteOnBadResponse ==
    (FetchFails \/ Malformed) =>
        /\ pc # "done"
        /\ ~opened
        /\ out_file = prior_file

\* C2: after a fetch that gave a JSON array of objects, a reading whose
\* pm25 is missing or no number, or whose timestamp is missing or invalid,
\* never aborts the run: the reading gets the label "Unknown" or a null
\* timestamp_iso_utc, and the written document holds all the readings.
C2_BadFieldNeverAborts ==
    ArrayOfObjects =>
        /\ (pc = "aborted" /\ todo # <<>>)
              => ~(BadPm25(Head(todo)) \/ BadTimestamp(Head(todo)))
        /\ pc = "done" =>
              /\ Len(out_file.d.stations.l) = Len(data.l)
              /\ \A i \in 1..Len(out_file.d.stations.l) :
                    LET x == out_file.d.stations.l[i]
                    IN  /\ BadPm25(x) => x.d.sl_aqi_label = PyStr(S_Unknown)
                        /\ BadTimestamp(x) => x.d.timestamp_iso_utc = PyNone

\* the string a field of a reading is ordered by: str() of the value, and
\* the empty string when the reading has no such field
FieldText(x, k) == IF k \in DOMAIN x.d THEN StrOf(x.d[k]) ELSE <<>>

\* a is ordered before b, or equal to it, by code points
StrLessEq(a, b) == a = b \/ StrLess(a, b)

\* reading x may stand before reading y
InOrder(x, y) ==
    \/ StrLess(FieldText(x, "name"), FieldText(y, "name"))
    \/ /\ FieldText(x, "name") = FieldText(y, "name")
       /\ StrLessEq(FieldText(x, "meta_device_id"), FieldText(y, "meta_device_id"))

\* C6: in every written document the stations are in ascending order of
\* (name as string, device id as string) by code points, a missing field
\* counting as the empty string.
C6_StationsSorted ==
    opened =>
        LET st == out_file.d.stations.l
        IN  \A i \in 1..Len(st) : \A j \in i..Len(st) : InOrder(st[i], st[j])

\* the readings "B" and "A", fetched in this order, have been written
\* with "A" before "B"
C6_Witness_Reordered ==
    /\ pc = "done"
    /\ Len(data.l) = 2
    /\ Get(data.l[1], "name", PyNone) = PyStr(S_B)
    /\ Get(data.l[2], "name", PyNone) = PyStr(S_A)
    /\ Get(out_file.d.stations.l[1], "name", PyNone) = PyStr(S_A)
    /\ Get(out_file.d.stations.l[2], "name", PyNone) = PyStr(S_B)

\* the loop is running: the enriched readings stand in input order
InInputOrder == pc = "item" /\ data.t = "list"

\* C7 as claimed: the enriched reading holds every key of the raw reading
\* with its value unchanged, plus exactly the five enrichment keys, also
\* for a raw reading that carries a key of one of these names; and the
\* raw reading is not modified.
C7_RawValuesUnchanged ==
    InInputOrder =>
        \A i \in 1..Len(enriched) :
            /\ DOMAIN enriched[i].d = (DOMAIN data.l[i].d) \cup EnrichmentKeys
            /\ \A k \in DOMAIN data.l[i].d : enriched[i].d[k] = data.l[i].d[k]
            /\ raw_seen[i] = data.l[i]

\* C7 as amended: the enriched reading holds every key of the raw reading
\* that is not named like an enrichment key with its value unchanged, plus
\* exactly the five enrichment keys, which hold the derived values also
\* when the raw reading carries a key of that name; and the raw reading
\* is not modified.
C7_OtherRawValuesUnchanged ==
    InInputOrder =>
        \A i \in 1..Len(enriched) :
            /\ DOMAIN enriched[i].d = (DOMAIN data.l[i].d) \cup EnrichmentKeys
            /\ \A k \in (DOMAIN data.l[i].d) \ EnrichmentKeys :
                  enriched[i].d[k] = data.l[i].d[k]
            /\ enriched[i].d.sl_aqi_label.t = "str"
            /\ enriched[i].d.sl_aqi_label.c \in BandLabels \cup {S_Unknown}
            /\ enriched[i].d.timestamp_iso_utc.t \in {"str", "null"}
            /\ raw_seen[i] = data.l[i]

\* a raw reading that carries the key sl_aqi_label has been enriched, and
\* the enriched reading holds the derived label in place of the raw value
C7_Witness_KeyReplaced ==
    /\ InInputOrder
    /\ Len(enriched) >= 1
    /\ "sl_aqi_label" \in DOMAIN data.l[1].d
    /\ "name" \in DOMAIN data.l[1].d
    /\ enriched[1].d.sl_aqi_label = PyStr(S_Moderate)
    /\ enriched[1].d.name = data.l[1].d.name

====
